---- MODULE Spec2Model ----
(***************************************************************************)
(* Model of the map cost engine of MARC (src/src/map.c): map_from_file     *)
(* loads a grid of soils, _compute_costs propagates movement costs         *)
(* breadth-first from the base station, and _remove_false_costs sweeps the *)
(* grid once to recompute the costs that are above the crevasse cost.      *)
(* Costs and coordinates are C unsigned int: all arithmetic is modulo 2^32.*)
(***************************************************************************)
EXTENDS Integers, Sequences, FiniteSets, TLC

\* ------------------------------------------------------------------ bounds
\* Every grid holds at most MaxDim columns and MaxDim rows.
MaxDim == 3
\* The grids with any soil in each cell hold at most MaxCells cells.
MaxCells == 6
\* The grids with crevasses all around the base station hold at most
\* MoatCells cells.
MoatCells == 9
\* The rover starts at coordinates of at most MaxStart and makes at most
\* MaxCalls moves.
MaxStart == 1
MaxCalls == 3

\* ------------------------------------------------------- unsigned int
\* A C unsigned int (32 bits) is the pair <<hi, lo>> of its 16-bit halves,
\* its value being hi * 2^16 + lo: the model checker's integers are too
\* narrow for 2^32. All arithmetic below is modulo 2^32, as in C.
Half == 256 * 256

\* The unsigned int of a natural number below 2^31.
U32(n) == <<n \div Half, n % Half>>

\* The unsigned int an int converts to (a negative int wraps: -1 is 0xFFFFFFFF).
IntToU32(i) ==
    IF i >= 0 THEN U32(i)
    ELSE <<(Half - 1) - ((-i - 1) \div Half), (Half - 1) - ((-i - 1) % Half)>>

\* The natural number of an unsigned int below 2^31.
Val(u) == u[1] * Half + u[2]

U32Lt(a, b) == a[1] < b[1] \/ (a[1] = b[1] /\ a[2] < b[2])
U32Le(a, b) == a = b \/ U32Lt(a, b)

U32Add(a, b) ==
    LET lo == a[2] + b[2]
        hi == a[1] + b[1] + (lo \div Half)
    IN <<hi % Half, lo % Half>>

U32Sub(a, b) ==
    LET lo == a[2] - b[2]
        hi == a[1] - b[1] - (IF lo < 0 THEN 1 ELSE 0)
    IN <<hi % Half, lo % Half>>

\* ------------------------------------------------------- program constants
COST_UNDEF == <<Half - 1, Half - 1>>
\* COST_UNDEF - 1, the mark of a cell that is in the queue.
COST_PENDING == U32Sub(COST_UNDEF, U32(1))
\* The threshold of _remove_false_costs.
FALSE_COST_LIMIT == 10000

BASE_STATION == 0
PLAIN == 1
ERG == 2
REG == 3
CREVASSE == 4

Soils == {BASE_STATION, PLAIN, ERG, REG, CREVASSE}

\* Mutant: a crevasse costs 1000.
SoilCostTableCheapCrevasse == <<0, 1, 2, 4, 1000>>

\* _soil_cost[soil], converted to unsigned int where it is used.
SoilCostTable == <<0, 1, 2, 4, 10000>>
SoilCost(soil) == IntToU32(SoilCostTable[soil + 1])

\* Mutant: the vector {0, -1} is lost (the last vector is written twice).
DirectionVectorsNoMinusY == << <<-1, 0>>, <<1, 0>>, <<0, 1>>, <<0, 1>> >>

\* _direction_vectors[i], i in 0..3: {dx, dy}
DirectionVectors == << <<-1, 0>>, <<1, 0>>, <<0, -1>>, <<0, 1>> >>

\* A position_s is <<x, y>>, x and y unsigned int.
Pos(x, y) == <<U32(x), U32(y)>>
PosX(position) == Val(position[1])
PosY(position) == Val(position[2])

\* The int an unsigned int converts to (0xFFFFFFFF is -1).
ToInt(u) == IF u[1] >= Half \div 2 THEN -Val(U32Sub(U32(0), u)) ELSE Val(u)

\* Mutant: the coordinates are compared as int, so that a coordinate that
\* wrapped around to 0xFFFFFFFF (-1) passes the test.
POSITION_IS_VALID_AsInt(position, map_width, map_height) ==
    ToInt(position[1]) < map_width /\ ToInt(position[2]) < map_height

POSITION_IS_VALID(position, map_width, map_height) ==
    U32Lt(position[1], U32(map_width)) /\ U32Lt(position[2], U32(map_height))

\* The cells of a grid of w columns and h rows.
Cells(w, h) == {Pos(x, y) : x \in 0 .. w - 1, y \in 0 .. h - 1}

\* orientation_e
NORTH == 0
EAST == 1
SOUTH == 2
WEST == 3

\* A localisation_s is [pos |-> position_s, ori |-> orientation_e].
LOCALISATION_INIT(pos_x, pos_y, orientation) ==
    [pos |-> <<pos_x, pos_y>>, ori |-> orientation]

VARIABLES
    width,    \* map.width
    height,   \* map.height
    soils,    \* map.soils : cell -> soil
    costs,    \* map.costs : cell -> unsigned int
    queue,    \* the t_queue of _compute_costs
    pc,       \* position of map_from_file ("done", "failed": it has returned)
    sweep,    \* index (row-major) of the next cell of _remove_false_costs
    written,  \* history: the last assignment costs[y][x] = _compute_cell_cost(...)
              \* as <<position, old cost, new cost>>, <<>> before the first one
    touched,  \* history: the positions the last step of a pass used as an
              \* index of map.soils or map.costs
    p_loc,    \* the rover's localisation_s, *p_loc: [pos, ori]
    start,    \* history: the rover's first localisation
    last,     \* history: the last call of updateLocalisation, as
              \* [loc, m, rotated]: the localisation before it, the move, and
              \* what rotate returned; <<>> before the first call
    calls     \* the number of calls of updateLocalisation so far

\* The rover's variables; the map engine leaves them alone.
rover == <<p_loc, start, last, calls>>

vars == <<width, height, soils, costs, queue, pc, sweep, written, touched, rover>>

\* ------------------------------------------------------------------- queue
\* The position {0xFFFFFFFF, 0xFFFFFFFF}: what _get_base_station_pos returns
\* when it finds no base station; it also stands for a slot of queue.values
\* that was never written.
NoPos == <<IntToU32(-1), IntToU32(-1)>>

NoQueue == [size |-> 0, first |-> 0, last |-> 0, values |-> <<>>]

createQueue(size) ==
    [size |-> size, first |-> 0, last |-> 0,
     values |-> [i \in 1 .. size |-> NoPos]]

enqueue(q, pos) ==
    [q EXCEPT !.values[(q.last % q.size) + 1] = pos, !.last = q.last + 1]

\* dequeue returns the position and advances first.
dequeueValue(q) == q.values[(q.first % q.size) + 1]
dequeueRest(q) == [q EXCEPT !.first = q.first + 1]

\* ------------------------------------------------------ _get_base_station_pos
\* Row-major index of a cell and back.
CellIndex(pos, w) == PosY(pos) * w + PosX(pos)
CellAt(i, w) == Pos(i % w, i \div w)

BaseCells(s, w, h) == {c \in Cells(w, h) : s[c] = BASE_STATION}

_get_base_station_pos(s, w, h) ==
    IF BaseCells(s, w, h) = {}
    THEN NoPos
    ELSE CHOOSE c \in BaseCells(s, w, h) :
            \A d \in BaseCells(s, w, h) : CellIndex(c, w) <= CellIndex(d, w)

\* --------------------------------------------------------- _compute_cell_cost
\* One iteration of the loop over the four directions. st is the state of
\* the loop: [cost_min, costs, queue, used], used being the positions used so
\* far as an index of map.costs; hasQueue is FALSE when the queue argument is
\* the null pointer.
NeighbourPos(position, i) ==
    <<U32Add(position[1], IntToU32(DirectionVectors[i + 1][1])),
      U32Add(position[2], IntToU32(DirectionVectors[i + 1][2]))>>

\* Mutant: the test "compute_pos_cost == COST_UNDEF" is dropped, so every
\* neighbour that does not lower cost_min is enqueued and marked again.
ComputeCellCostIterNoUndefTest(st, position, i, w, h, hasQueue) ==
    LET compute_pos == NeighbourPos(position, i) IN
    IF POSITION_IS_VALID(compute_pos, w, h)
    THEN LET compute_pos_cost == st.costs[compute_pos]
             seen == [st EXCEPT !.used = @ \cup {compute_pos}]
         IN
         IF U32Lt(compute_pos_cost, st.cost_min)
         THEN [seen EXCEPT !.cost_min = compute_pos_cost]
         ELSE IF hasQueue
              THEN [seen EXCEPT !.queue = enqueue(st.queue, compute_pos),
                                !.costs[compute_pos] = U32Sub(COST_UNDEF, U32(1))]
              ELSE seen
    ELSE st

\* Mutant: an undefined neighbour is enqueued but not marked pending.
ComputeCellCostIterNoMark(st, position, i, w, h, hasQueue) ==
    LET compute_pos == NeighbourPos(position, i) IN
    IF POSITION_IS_VALID(compute_pos, w, h)
    THEN LET compute_pos_cost == st.costs[compute_pos]
             seen == [st EXCEPT !.used = @ \cup {compute_pos}]
         IN
         IF U32Lt(compute_pos_cost, st.cost_min)
         THEN [seen EXCEPT !.cost_min = compute_pos_cost]
         ELSE IF hasQueue /\ compute_pos_cost = COST_UNDEF
              THEN [seen EXCEPT !.queue = enqueue(st.queue, compute_pos)]
              ELSE seen
    ELSE st

ComputeCellCostIter(st, position, i, w, h, hasQueue) ==
    LET compute_pos == NeighbourPos(position, i) IN
    IF POSITION_IS_VALID(compute_pos, w, h)
    THEN LET compute_pos_cost == st.costs[compute_pos]
             seen == [st EXCEPT !.used = @ \cup {compute_pos}]
         IN
         IF U32Lt(compute_pos_cost, st.cost_min)
         THEN [seen EXCEPT !.cost_min = compute_pos_cost]
         ELSE IF hasQueue /\ compute_pos_cost = COST_UNDEF
              THEN [seen EXCEPT !.queue = enqueue(st.queue, compute_pos),
                                !.costs[compute_pos] = U32Sub(COST_UNDEF, U32(1))]
              ELSE seen
    ELSE st

RECURSIVE ComputeCellCostLoop(_, _, _, _, _, _)
\* Mutant: the loop stops one direction short (i < 3).
ComputeCellCostLoopThree(st, position, i, w, h, hasQueue) ==
    IF i >= 3 THEN st
    ELSE ComputeCellCostLoop(ComputeCellCostIter(st, position, i, w, h, hasQueue),
                             position, i + 1, w, h, hasQueue)

ComputeCellCostLoop(st, position, i, w, h, hasQueue) ==
    IF i = 4 THEN st
    ELSE ComputeCellCostLoop(ComputeCellCostIter(st, position, i, w, h, hasQueue),
                             position, i + 1, w, h, hasQueue)

\* Mutant: the soil cost is always added, a soil cost of 0 included.
CellCostResultAlwaysAdd(cost_min, soil_current_cost) ==
    U32Add(cost_min, soil_current_cost)

\* Mutant: the cost of the cheapest neighbour is not added.
CellCostResultNoSum(cost_min, soil_current_cost) ==
    IF soil_current_cost # U32(0) THEN soil_current_cost ELSE U32(0)

CellCostResult(cost_min, soil_current_cost) ==
    IF soil_current_cost # U32(0) THEN U32Add(cost_min, soil_current_cost) ELSE U32(0)

\* The result is [ret, costs, queue, used]: the returned cost, the cost field
\* and queue as the call leaves them, and the positions the call used as an
\* index of map.soils or map.costs.
_compute_cell_cost(s, c, w, h, position, q, hasQueue) ==
    LET st == ComputeCellCostLoop([cost_min |-> COST_UNDEF, costs |-> c, queue |-> q,
                                   used |-> {position}],
                                  position, 0, w, h, hasQueue)
    IN [ret |-> CellCostResult(st.cost_min, SoilCost(s[position])),
        costs |-> st.costs, queue |-> st.queue, used |-> st.used]

\* ------------------------------------------------------------ map_from_file
\* map_s map = {0, 0, 0, 0}: no dimensions, no soils, no costs.
InitMap ==
    /\ width = 0
    /\ height = 0
    /\ soils = <<>>
    /\ costs = <<>>
    /\ queue = NoQueue
    /\ pc = "load"
    /\ sweep = 0
    /\ written = <<>>
    /\ touched = {}

\* map_from_file uses no rover: one localisation, never moved.
Init ==
    /\ InitMap
    /\ p_loc = LOCALISATION_INIT(U32(0), U32(0), NORTH)
    /\ start = p_loc
    /\ last = <<>>
    /\ calls = 0

Dims(maxCells) ==
    {d \in (1 .. MaxDim) \X (1 .. MaxDim) : d[1] * d[2] <= maxCells}

\* The dimensions are read from the file: a grid of at most MaxDim columns,
\* MaxDim rows and maxCells cells.
ReadDimensions(maxCells) ==
    /\ pc = "load"
    /\ \E d \in Dims(maxCells) :
          /\ width' = d[1]
          /\ height' = d[2]
    /\ pc' = "fill"
    /\ UNCHANGED <<soils, costs, queue, sweep, written, touched, rover>>

MapFromFileDimensions == ReadDimensions(MaxCells)

\* _map_fill_from_file, one iteration of its reading loop: the next cell in
\* row-major order gets the soil read from the file. soils holds the cells
\* read so far.
CellsRead == Cardinality(DOMAIN soils)

MapFillReadSoil ==
    /\ pc = "fill"
    /\ CellsRead < width * height
    /\ \E value_current \in Soils :
          soils' = (CellAt(CellsRead, width) :> value_current) @@ soils
    /\ UNCHANGED <<width, height, costs, queue, pc, sweep, written, touched, rover>>

\* _map_fill_from_file, after its reading loop: every cost is set to
\* 0xFFFFFFFF (memset) and the arrays are given to the map.
MapFillSetCosts ==
    /\ pc = "fill"
    /\ CellsRead = width * height
    /\ costs' = [c \in Cells(width, height) |-> COST_UNDEF]
    /\ pc' = "compute_costs"
    /\ UNCHANGED <<width, height, soils, queue, sweep, written, touched, rover>>

\* The file cannot be opened: map_from_file returns the empty map {0, 0, 0, 0}.
MapFromFileNoFile ==
    /\ pc = "load"
    /\ pc' = "failed"
    /\ UNCHANGED <<width, height, soils, costs, queue, sweep, written, touched, rover>>

\* _map_fill_from_file fails while reading a cell (the file is too short or
\* badly formatted): its arrays are freed and map_from_file returns the map
\* with its dimensions but null soils and costs.
MapFillFail ==
    /\ pc = "fill"
    /\ CellsRead < width * height
    /\ soils' = <<>>
    /\ pc' = "failed"
    /\ UNCHANGED <<width, height, costs, queue, sweep, written, touched, rover>>

\* A whole file at once: dimensions w and h and the soils s.
FillFromFile(w, h, s) ==
    /\ pc = "load"
    /\ width' = w
    /\ height' = h
    /\ soils' = s
    /\ costs' = [c \in Cells(w, h) |-> COST_UNDEF]
    /\ pc' = "compute_costs"
    /\ UNCHANGED <<queue, sweep, written, touched, rover>>

\* The file holds a grid of at most MaxDim columns and MaxDim rows with one
\* base station, every other cell being plain.
MapFromFilePlain ==
    /\ pc = "load"
    /\ \E w \in 1 .. MaxDim, h \in 1 .. MaxDim :
        \E o \in Cells(w, h) :
            FillFromFile(w, h, [c \in Cells(w, h) |->
                                   IF c = o THEN BASE_STATION ELSE PLAIN])

\* The file holds a grid of at most MaxDim columns, MaxDim rows and MoatCells
\* cells with one base station, a crevasse in each cell next to it, and any
\* soil but the base station in every other cell.
NextTo(a, b) ==
    \/ (a[1] = b[1] /\ (PosY(a) - PosY(b)) \in {-1, 1})
    \/ (a[2] = b[2] /\ (PosX(a) - PosX(b)) \in {-1, 1})

MapFromFileMoat ==
    /\ pc = "load"
    /\ \E w \in 1 .. MaxDim, h \in 1 .. MaxDim :
        /\ w * h <= MoatCells
        /\ \E o \in Cells(w, h) :
              \E rest \in [{c \in Cells(w, h) : c # o /\ ~NextTo(c, o)}
                              -> Soils \ {BASE_STATION}] :
                  FillFromFile(w, h, [c \in Cells(w, h) |->
                                         IF c = o THEN BASE_STATION
                                         ELSE IF NextTo(c, o) THEN CREVASSE
                                         ELSE rest[c]])

\* ------------------------------------------------------------ _compute_costs
\* No base station: the queue is created, the error is printed, and the
\* function returns.
BaseNotFound(base_station_pos) ==
    base_station_pos[1] = IntToU32(-1) \/ base_station_pos[2] = IntToU32(-1)

ComputeCostsNoBase ==
    /\ pc = "compute_costs"
    /\ BaseNotFound(_get_base_station_pos(soils, width, height))
    /\ queue' = createQueue(width * height)
    /\ pc' = "remove_false_costs"
    /\ UNCHANGED <<width, height, soils, costs, sweep, written, touched, rover>>

ComputeCostsBegin ==
    /\ pc = "compute_costs"
    /\ ~BaseNotFound(_get_base_station_pos(soils, width, height))
    /\ queue' = enqueue(createQueue(width * height),
                        _get_base_station_pos(soils, width, height))
    /\ pc' = "bfs"
    /\ UNCHANGED <<width, height, soils, costs, sweep, written, touched, rover>>

\* One iteration of the while loop: dequeue, compute, write.
BfsStep ==
    /\ pc = "bfs"
    /\ queue.first # queue.last
    /\ LET current_pos == dequeueValue(queue)
           r == _compute_cell_cost(soils, costs, width, height, current_pos,
                                   dequeueRest(queue), TRUE)
       IN /\ costs' = [r.costs EXCEPT ![current_pos] = r.ret]
          /\ queue' = r.queue
          /\ written' = <<current_pos, r.costs[current_pos], r.ret>>
          /\ touched' = r.used
    /\ UNCHANGED <<width, height, soils, pc, sweep, rover>>

\* The loop ends and _compute_costs returns.
ComputeCostsReturn ==
    /\ pc = "bfs"
    /\ queue.first = queue.last
    /\ pc' = "remove_false_costs"
    /\ UNCHANGED <<width, height, soils, costs, queue, sweep, written, touched, rover>>

\* ------------------------------------------------------- _remove_false_costs
\* Mutant: the crevasse test is dropped.
IsFalseCostAnySoil(soil, cost) == U32Lt(U32(FALSE_COST_LIMIT), cost)

IsFalseCost(soil, cost) == soil # CREVASSE /\ U32Lt(U32(FALSE_COST_LIMIT), cost)

\* Mutant: the recomputed cost is added to the cell's cost (+= for =).
RemoveFalseCostsCellAccumulate(s, c, w, h, i) ==
    LET pos == CellAt(i, w)
        r == _compute_cell_cost(s, c, w, h, pos, NoQueue, FALSE)
    IN IF IsFalseCost(s[pos], c[pos])
       THEN [r.costs EXCEPT ![pos] = U32Add(c[pos], r.ret)]
       ELSE c

\* One iteration of the inner loop, on the cell of row-major index i: the
\* cost field it leaves. The queue argument of _compute_cell_cost is null.
RemoveFalseCostsCell(s, c, w, h, i) ==
    LET pos == CellAt(i, w)
        r == _compute_cell_cost(s, c, w, h, pos, NoQueue, FALSE)
    IN IF IsFalseCost(s[pos], c[pos])
       THEN [r.costs EXCEPT ![pos] = r.ret]
       ELSE c

\* The whole function: the cells from index i on, in row-major order.
RECURSIVE RemoveFalseCostsFrom(_, _, _, _, _)
RemoveFalseCostsFrom(s, c, w, h, i) ==
    IF i >= w * h THEN c
    ELSE RemoveFalseCostsFrom(s, RemoveFalseCostsCell(s, c, w, h, i), w, h, i + 1)

_remove_false_costs(s, c, w, h) == RemoveFalseCostsFrom(s, c, w, h, 0)

\* Mutant: the test is written with = for !=, which stores CREVASSE in the
\* cell's soil.
RemoveFalseCostsStepAssignsSoil ==
    /\ pc = "remove_false_costs"
    /\ sweep < width * height
    /\ soils' = [soils EXCEPT ![CellAt(sweep, width)] = CREVASSE]
    /\ costs' = RemoveFalseCostsCell(soils', costs, width, height, sweep)
    /\ touched' = {CellAt(sweep, width)}
    /\ sweep' = sweep + 1
    /\ UNCHANGED <<width, height, queue, pc, written, rover>>

\* One iteration of the inner loop as a step of the run, on the cell of
\* row-major index sweep.
RemoveFalseCostsStep ==
    /\ pc = "remove_false_costs"
    /\ sweep < width * height
    /\ costs' = RemoveFalseCostsCell(soils, costs, width, height, sweep)
    /\ written' = IF IsFalseCost(soils[CellAt(sweep, width)], costs[CellAt(sweep, width)])
                  THEN <<CellAt(sweep, width), costs[CellAt(sweep, width)],
                         costs'[CellAt(sweep, width)]>>
                  ELSE written
    /\ touched' = IF IsFalseCost(soils[CellAt(sweep, width)], costs[CellAt(sweep, width)])
                  THEN _compute_cell_cost(soils, costs, width, height,
                                          CellAt(sweep, width), NoQueue, FALSE).used
                  ELSE {CellAt(sweep, width)}
    /\ sweep' = sweep + 1
    /\ UNCHANGED <<width, height, soils, queue, pc, rover>>

\* The sweep is over and map_from_file returns the map.
MapFromFileReturn ==
    /\ pc = "remove_false_costs"
    /\ sweep = width * height
    /\ pc' = "done"
    /\ UNCHANGED <<width, height, soils, costs, queue, sweep, written, touched, rover>>

\* The steps of map_from_file once the grid is loaded.
Run ==
    \/ ComputeCostsNoBase
    \/ ComputeCostsBegin
    \/ BfsStep
    \/ ComputeCostsReturn
    \/ RemoveFalseCostsStep
    \/ MapFromFileReturn

\* The same steps on a grid that holds a base station.
RunOrigin ==
    \/ ComputeCostsBegin
    \/ BfsStep
    \/ ComputeCostsReturn
    \/ RemoveFalseCostsStep
    \/ MapFromFileReturn

Next ==
    \/ MapFromFileNoFile
    \/ MapFromFileDimensions
    \/ MapFillReadSoil
    \/ MapFillFail
    \/ MapFillSetCosts
    \/ Run

Spec == Init /\ [][Next]_vars

\* The run on the plain grids.
NextPlain == MapFromFilePlain \/ RunOrigin

SpecPlain == Init /\ [][NextPlain]_vars

\* The run on the grids with crevasses all around the base station.
NextMoat == MapFromFileMoat \/ RunOrigin

SpecMoat == Init /\ [][NextMoat]_vars

\* ------------------------------------------------------------------ moves.c
\* t_move: the enumerators that rotate and translate name. OTHER stands for
\* any other enumerator, which takes the default branches.
Moves == {"F_10", "F_20", "F_30", "B_10", "T_LEFT", "T_RIGHT", "U_TURN", "OTHER"}

\* Values that an uninitialised int may hold: rotate reads rst without having
\* set it when the move is not a turn.
Indeterminate == {-5, 0, 1, 6}

\* a % b in C, b > 0: the remainder has the sign of a.
CRem(a, b) == IF a >= 0 THEN a % b ELSE -((-a) % b)

\* rst0 is what rst holds before the switch.
rotate(ori, move, rst0) ==
    LET rst == CASE move = "T_LEFT" -> 3
                 [] move = "T_RIGHT" -> 1
                 [] move = "U_TURN" -> 2
                 [] OTHER -> rst0
    IN CRem(ori + rst, 4)

\* The rover goes d cells forward (backward when d < 0) along loc.ori; the
\* coordinates are unsigned int.
translate(loc, move) ==
    LET x == loc.pos[1]
        y == loc.pos[2]
        d == CASE move = "F_10" -> 1
               [] move = "F_20" -> 2
               [] move = "F_30" -> 3
               [] move = "B_10" -> -1
               [] OTHER -> 0
        res == IF d = 0 THEN loc.pos
               ELSE CASE loc.ori = NORTH -> <<x, U32Sub(y, IntToU32(d))>>
                      [] loc.ori = EAST -> <<U32Add(x, IntToU32(d)), y>>
                      [] loc.ori = SOUTH -> <<x, U32Add(y, IntToU32(d))>>
                      [] loc.ori = WEST -> <<U32Sub(x, IntToU32(d)), y>>
                      [] OTHER -> loc.pos
    IN LOCALISATION_INIT(res[1], res[2], loc.ori)

\* Mutant: the two statements are in the other order, so that the
\* orientation from rotate is kept.
moveRotateLast(loc, m, rst0) ==
    LET translated == translate(loc, m)
    IN [translated EXCEPT !.ori = rotate(loc.ori, m, rst0)]

\* new_loc.ori = rotate(loc.ori, move); new_loc = translate(loc, move);
move(loc, m, rst0) ==
    LET rotated == [ori |-> rotate(loc.ori, m, rst0)]
        new_loc == translate(loc, m)
    IN new_loc

mapVars == <<width, height, soils, costs, queue, pc, sweep, written, touched>>

\* A rover starts at coordinates of at most MaxStart, in any orientation.
InitRover ==
    /\ InitMap
    /\ p_loc \in {LOCALISATION_INIT(U32(x), U32(y), o) :
                    x \in 0 .. MaxStart, y \in 0 .. MaxStart,
                    o \in {NORTH, EAST, SOUTH, WEST}}
    /\ start = p_loc
    /\ last = <<>>
    /\ calls = 0

\* updateLocalisation(p_loc, m): *p_loc = move(*p_loc, m).
updateLocalisation ==
    /\ calls < MaxCalls
    /\ \E m \in Moves, rst0 \in Indeterminate :
          /\ p_loc' = move(p_loc, m, rst0)
          /\ last' = [loc |-> p_loc, m |-> m, rotated |-> rotate(p_loc.ori, m, rst0)]
    /\ calls' = calls + 1
    /\ UNCHANGED <<start, mapVars>>

NextRover == updateLocalisation

SpecRover == InitRover /\ [][NextRover]_vars

\* =================================================================== claims
\* What the claims speak of, stated independently of the engine.
TheCells == Cells(width, height)
HasOrigin == BaseCells(soils, width, height) # {}
OneOrigin == Cardinality(BaseCells(soils, width, height)) = 1
\* The origin of the run: the first base station in row-major order.
Origin == _get_base_station_pos(soils, width, height)

Abs(n) == IF n < 0 THEN -n ELSE n
Manhattan(a, b) == Abs(PosX(a) - PosX(b)) + Abs(PosY(a) - PosY(b))
\* The 4-connected neighbours of a cell.
Adjacent(c) ==
    LET x == PosX(c)
        y == PosY(c)
    IN {Pos(p[1], p[2]) :
           p \in {q \in {<<x - 1, y>>, <<x + 1, y>>, <<x, y - 1>>, <<x, y + 1>>} :
                      q[1] \in 0 .. width - 1 /\ q[2] \in 0 .. height - 1}}
\* The terrain cost of a cell, as a natural number.
Terrain(c) == SoilCostTable[soils[c] + 1]

MinOf(S) == CHOOSE m \in S : \A n \in S : m <= n
\* More than the cost of any path of the grids checked.
Unreached == 1000000 * 1000

\* Bellman-Ford over the set d of pairs <<cell, cost so far>>: d after k more
\* rounds of relaxation of every cell.
CostIn(d, c) == (CHOOSE p \in d : p[1] = c)[2]

RECURSIVE Relaxed(_, _)
Relaxed(d, k) ==
    IF k = 0 THEN d
    ELSE Relaxed({<<c, MinOf({CostIn(d, c)} \cup
                             {CostIn(d, n) + Terrain(c) : n \in Adjacent(c)})>> :
                     c \in TheCells},
                 k - 1)

\* MinPathCost(c): the minimum over the 4-connected paths from the origin to c
\* of the sum of the terrain costs of the cells entered.
AllMinPathCosts ==
    Relaxed({<<c, IF c = Origin THEN 0 ELSE Unreached>> : c \in TheCells},
            width * height)

MinPathCost(c) == CostIn(AllMinPathCosts, c)

\* C1: for every grid with exactly one origin, after both passes the cost of
\* every cell is the minimum path cost from the origin (stated as the claim
\* states it; the engine's breadth-first order violates it).
C1_FinalCostIsMinimum ==
    (pc = "done" /\ OneOrigin) =>
        LET best == AllMinPathCosts
        IN \A c \in TheCells : costs[c] = U32(CostIn(best, c))

\* C3: with no origin-terrain cell, every cost is still the undefined
\* sentinel when map_from_file returns (stated as the claim states it; the
\* repair pass violates it).
C3_NoOriginLeavesUndefined ==
    (pc = "done" /\ ~HasOrigin) =>
        \A c \in TheCells : costs[c] = COST_UNDEF

\* C4: on a grid with an origin, the origin's cost is 0 once the origin has
\* been dequeued, and in every later state of both passes.
C4_OriginCostZero ==
    (pc \in {"bfs", "remove_false_costs", "done"} /\ HasOrigin /\ queue.first >= 1) =>
        costs[Origin] = U32(0)

\* The origin of a grid of several cells has been dequeued, the grid has been
\* swept, and the origin holds 0.
C4_Witness ==
    /\ pc = "done"
    /\ HasOrigin
    /\ width * height > 1
    /\ queue.first >= 1
    /\ costs[Origin] = U32(0)

\* C5: every step of a run leaves each cell's cost less than or equal to the
\* cost it held before: marking a cell pending, settling it, and recomputing
\* it in the repair pass never raise a cost.
C5_CostsNeverIncrease ==
    [][\A c \in DOMAIN costs : U32Le(costs'[c], costs[c])]_vars

\* The repair pass has recomputed a settled cost (neither sentinel) and
\* stored a strictly lower one.
C5_Witness ==
    /\ pc = "remove_false_costs"
    /\ HasOrigin
    /\ written # <<>>
    /\ CellIndex(written[1], width) = sweep - 1
    /\ U32Lt(written[2], COST_PENDING)
    /\ U32Lt(written[3], written[2])
    /\ costs[written[1]] = written[3]

\* C2: on a grid with exactly one origin, every other cell plain, the cost of
\* every cell after both passes is its Manhattan distance from the origin; a
\* row [origin, plain, plain] ends as [0, 1, 2].
PlainGrid == OneOrigin /\ \A c \in TheCells : soils[c] \in {BASE_STATION, PLAIN}

C2_PlainCostIsManhattan ==
    (pc = "done" /\ PlainGrid) =>
        /\ \A c \in TheCells : costs[c] = U32(Manhattan(c, Origin))
        /\ (width = 3 /\ height = 1 /\ Origin = Pos(0, 0)) =>
               costs = (Pos(0, 0) :> U32(0)) @@ (Pos(1, 0) :> U32(1)) @@ (Pos(2, 0) :> U32(2))

\* The 3x3 plain grid with the origin at (1,1) ends as the diamond: centre 0,
\* edge-midpoints 1, corners 2.
C2_Witness ==
    /\ pc = "done"
    /\ PlainGrid
    /\ width = 3 /\ height = 3 /\ Origin = Pos(1, 1)
    /\ costs[Pos(1, 1)] = U32(0)
    /\ \A c \in {Pos(1, 0), Pos(0, 1), Pos(2, 1), Pos(1, 2)} : costs[c] = U32(1)
    /\ \A c \in {Pos(0, 0), Pos(2, 0), Pos(0, 2), Pos(2, 2)} : costs[c] = U32(2)

\* C6: the loop of _compute_costs ends on every grid after at most
\* width x height dequeues: every iteration dequeues one more position, the
\* number of dequeues never exceeds width x height, and the loop is left with
\* the queue empty (first = last).
C6_BfsTerminates ==
    [][pc = "bfs" =>
          \/ /\ pc' = "bfs"
             /\ queue.first # queue.last
             /\ queue'.first = queue.first + 1
             /\ queue'.first <= width * height
          \/ /\ pc' = "remove_false_costs"
             /\ queue.first = queue.last
             /\ queue.first <= width * height]_vars

\* The loop has ended with an empty queue after exactly width x height
\* dequeues, on a grid of several cells.
C6_Witness ==
    /\ pc = "remove_false_costs"
    /\ HasOrigin
    /\ width * height > 1
    /\ queue.first = queue.last
    /\ queue.first = width * height

\* C7: in one run every cell is enqueued at most once, so the number of
\* enqueues, and the number of positions waiting in the queue, never exceed
\* the capacity width x height; a waiting position holds the pending
\* sentinel (the origin, enqueued first, still holds the undefined one).
Started == pc \in {"bfs", "remove_false_costs", "done"}

C7_EnqueuedAtMostOnce ==
    Started =>
        /\ queue.size = width * height
        /\ queue.first <= queue.last
        /\ queue.last <= queue.size
        /\ \A i, j \in 1 .. queue.last :
              i # j => queue.values[i] # queue.values[j]
        /\ \A i \in (queue.first + 1) .. queue.last :
              \/ costs[queue.values[i]] = COST_PENDING
              \/ (i = 1 /\ queue.values[i] = Origin /\ costs[Origin] = COST_UNDEF)

\* Every cell of a grid of at least four cells has been enqueued and some
\* still wait.
C7_Witness ==
    /\ pc = "bfs"
    /\ width * height >= 4
    /\ queue.last = width * height
    /\ queue.first + 2 <= queue.last

\* The cells that 4-connected steps through the cells of S lead to from the
\* cells of R.
RECURSIVE Closure(_, _)
Closure(R, S) ==
    LET more == R \cup {c \in S \ R : Adjacent(c) \cap R # {}}
    IN IF more = R THEN R ELSE Closure(more, S)

\* C8: after the run on a grid with an origin, every cell that 4-connected
\* steps reach from the origin holds a cost that is neither the undefined nor
\* the pending sentinel.
C8_ReachableCellsSettled ==
    (pc \in {"remove_false_costs", "done"} /\ HasOrigin) =>
        \A c \in Closure({Origin}, TheCells) :
            costs[c] # COST_UNDEF /\ costs[c] # COST_PENDING

\* A grid of at least four cells with a crevasse has been run to the end and
\* all of its cells are reached and settled.
C8_Witness ==
    /\ pc = "done"
    /\ HasOrigin
    /\ width * height >= 4
    /\ \E c \in TheCells : soils[c] = CREVASSE
    /\ Closure({Origin}, TheCells) = TheCells
    /\ \A c \in TheCells : U32Lt(costs[c], COST_PENDING)

\* The cells a path from an origin-terrain cell reaches without entering a
\* crevasse.
NoCrevasseReach ==
    Closure(BaseCells(soils, width, height),
            {c \in TheCells : soils[c] # CREVASSE})

MoatGrid == OneOrigin /\ \A c \in Adjacent(Origin) : soils[c] = CREVASSE

C10_CrevasseIsPenalty ==
    (pc = "done" /\ MoatGrid) =>
        /\ costs[Origin] = U32(0)
        /\ \A c \in Adjacent(Origin) : costs[c] = U32(10000)
        /\ \A c \in TheCells \ ({Origin} \cup Adjacent(Origin)) :
              /\ U32Le(U32(10000 + Terrain(c)), costs[c])
              /\ U32Lt(costs[c], COST_PENDING)

\* The 3x3 grid with the origin in the centre, crevasses on its four sides
\* and a plain corner: the corner ends with 10000 + 1.
C10_Witness ==
    /\ pc = "done"
    /\ MoatGrid
    /\ width = 3 /\ height = 3 /\ Origin = Pos(1, 1)
    /\ \A c \in {Pos(1, 0), Pos(0, 1), Pos(2, 1), Pos(1, 2)} : costs[c] = U32(10000)
    /\ soils[Pos(0, 0)] = PLAIN
    /\ costs[Pos(0, 0)] = U32(10001)

\* The run as it would be with the first origin as the only source: the same
\* two passes, a cell other than the origin getting cost_min plus its terrain
\* cost whatever its terrain (0 for an origin-terrain cell, which is inert).
SingleSourceResult(position, cost_min) ==
    IF position = Origin THEN U32(0)
    ELSE U32Add(cost_min, SoilCost(soils[position]))

RECURSIVE SingleSourceBfs(_, _)
SingleSourceBfs(c, q) ==
    IF q.first = q.last THEN c
    ELSE LET pos == dequeueValue(q)
             st == ComputeCellCostLoop([cost_min |-> COST_UNDEF, costs |-> c,
                                        queue |-> dequeueRest(q), used |-> {}],
                                       pos, 0, width, height, TRUE)
         IN SingleSourceBfs([st.costs EXCEPT ![pos] = SingleSourceResult(pos, st.cost_min)],
                            st.queue)

RECURSIVE SingleSourceSweep(_, _)
SingleSourceSweep(c, i) ==
    IF i >= width * height THEN c
    ELSE LET pos == CellAt(i, width)
             st == ComputeCellCostLoop([cost_min |-> COST_UNDEF, costs |-> c,
                                        queue |-> NoQueue, used |-> {}],
                                       pos, 0, width, height, FALSE)
         IN SingleSourceSweep(IF IsFalseCost(soils[pos], c[pos])
                              THEN [c EXCEPT ![pos] = SingleSourceResult(pos, st.cost_min)]
                              ELSE c,
                              i + 1)

SingleSourceCosts ==
    SingleSourceSweep(SingleSourceBfs([c \in TheCells |-> COST_UNDEF],
                                      enqueue(createQueue(width * height), Origin)),
                      0)

SeveralOrigins == Cardinality(BaseCells(soils, width, height)) >= 2

\* C11: on a grid with several origin-terrain cells only the first one in
\* row-major order is a source: the final cost of every cell is the cost of
\* the run in which the other origin-terrain cells are inert (stated as the
\* claim states it; the engine gives 0 to every origin-terrain cell).
C11_OtherOriginsInert ==
    (pc = "done" /\ SeveralOrigins) => costs = SingleSourceCosts

\* The map that map_from_file returns is a populated one: it has cells, and
\* its soils and costs fields are arrays over them (not null).
ReturnsPopulatedMap ==
    /\ pc = "done"
    /\ TheCells # {}
    /\ DOMAIN soils = TheCells
    /\ DOMAIN costs = TheCells

\* C12: for a grid without an origin map_from_file returns a failure value,
\* not a populated map as after a successful propagation (stated as the claim
\* states it; the engine returns the populated map).
C12_NoOriginIsFailure ==
    (pc = "done" /\ ~HasOrigin) => ~ReturnsPopulatedMap

\* The least of a set of unsigned int.
MinU32(S) == CHOOSE m \in S : \A n \in S : U32Le(m, n)

\* The cost field is a fixed point: the cost of each cell of non-origin
\* terrain is the least cost of its in-bounds neighbours plus its own
\* terrain cost.
CostsAreFixedPoint ==
    \A c \in TheCells :
        soils[c] # BASE_STATION =>
            costs[c] = U32Add(MinU32({COST_UNDEF} \cup {costs[n] : n \in Adjacent(c)}),
                              U32(Terrain(c)))

\* C13: when the breadth-first pass alone has reached a fixed point, running
\* _remove_false_costs twice on its output gives the same cost field as
\* running it once.
C13_RepairIdempotentOnFixedPoint ==
    (pc = "remove_false_costs" /\ sweep = 0 /\ CostsAreFixedPoint) =>
        _remove_false_costs(soils, _remove_false_costs(soils, costs, width, height),
                            width, height)
            = _remove_false_costs(soils, costs, width, height)

\* The breadth-first pass has ended on a fixed point in which a cell that is
\* not a crevasse holds more than 10000: the repair pass recomputes it, and
\* two passes agree with one.
C13_Witness ==
    /\ pc = "remove_false_costs"
    /\ sweep = 0
    /\ HasOrigin
    /\ CostsAreFixedPoint
    /\ \E c \in TheCells : IsFalseCost(soils[c], costs[c])
    /\ _remove_false_costs(soils, _remove_false_costs(soils, costs, width, height),
                           width, height)
           = _remove_false_costs(soils, costs, width, height)

\* C14: every position that _compute_cell_cost uses as an index of the grid,
\* in the breadth-first pass and in the repair pass, and every position it
\* enqueues, has x < width and y < height; a neighbour position that passes
\* the validity check is a cell of the grid, so that a coordinate wrapped
\* around to 0xFFFFFFFF or lying past the last row or column is rejected (the
\* check depends on the dimensions only: it is stated for each grid as the
\* passes start on it).
C14_IndicesInBounds ==
    /\ touched \subseteq TheCells
    /\ \A i \in 1 .. queue.last : queue.values[i] \in TheCells
    /\ pc = "compute_costs" =>
          \A c \in TheCells, i \in 0 .. 3 :
              POSITION_IS_VALID(NeighbourPos(c, i), width, height)
                  => NeighbourPos(c, i) \in TheCells

\* The corner (0,0) of a grid of at least two rows and two columns has been
\* computed: its neighbours at x - 1 and y - 1 wrapped around to 0xFFFFFFFF
\* and were rejected, the other two were used.
C14_Witness ==
    /\ pc = "bfs"
    /\ width >= 2 /\ height >= 2
    /\ written # <<>>
    /\ written[1] = Pos(0, 0)
    /\ NeighbourPos(Pos(0, 0), 0) = <<IntToU32(-1), U32(0)>>
    /\ NeighbourPos(Pos(0, 0), 2) = <<U32(0), IntToU32(-1)>>
    /\ touched = {Pos(0, 0), Pos(1, 0), Pos(0, 1)}
    /\ \A i \in 1 .. queue.last : queue.values[i] \in TheCells

\* C15: no step of the breadth-first pass or of the repair pass changes the
\* terrain of a cell: soils is, in every state of the run, what it was when
\* the run started.
C15_SoilsUnchanged ==
    [][(pc \in {"compute_costs", "bfs", "remove_false_costs"}) => (soils' = soils)]_vars

\* Both passes have run on a grid of at least four cells and written costs;
\* every cell still has a terrain label.
C15_Witness ==
    /\ pc = "done"
    /\ width * height >= 4
    /\ written # <<>>
    /\ \E c \in TheCells : costs[c] # COST_UNDEF
    /\ \A c \in TheCells : soils[c] \in Soils

\* The cell that the next step of a pass computes with _compute_cell_cost,
\* if any: the head of the queue in the breadth-first pass, the swept cell in
\* the repair pass when its cost is to be recomputed.
ComputedNext ==
    IF pc = "bfs" /\ queue.first # queue.last
    THEN {dequeueValue(queue)}
    ELSE IF pc = "remove_false_costs" /\ sweep < width * height
         THEN {c \in {CellAt(sweep, width)} :
                  soils[c] # CREVASSE /\ U32Lt(U32(FALSE_COST_LIMIT), costs[c])}
         ELSE {}

\* What _compute_cell_cost returns for the cell c in the current state.
ReturnedFor(c) ==
    _compute_cell_cost(soils, costs, width, height, c,
                       IF pc = "bfs" THEN dequeueRest(queue) ELSE NoQueue,
                       pc = "bfs").ret

\* C16: when _compute_cell_cost is applied to a cell of terrain cost 1, 2, 4
\* or 10000 whose in-bounds neighbours all hold 0xFFFFFFFF, the value it
\* returns is greater than 10000 (stated as the claim states it; the sum
\* wraps around to the terrain cost minus 1).
C16_UndefinedPlusTerrainIsLarge ==
    \A c \in ComputedNext :
        (Terrain(c) # 0 /\ \A n \in Adjacent(c) : costs[n] = COST_UNDEF)
            => U32Lt(U32(FALSE_COST_LIMIT), ReturnedFor(c))

\* C17: after the repair pass on a grid with an origin, no cell that is not
\* a crevasse holds more than 10000 while a neighbour offers less, and every
\* cell that is neither an origin nor a crevasse holds the least cost of its
\* neighbours plus its own terrain cost (stated as the claim states it; the
\* single sweep leaves cells that do not).
C17_RepairedCostsConsistent ==
    (pc = "done" /\ HasOrigin) =>
        \A c \in TheCells :
            soils[c] \notin {BASE_STATION, CREVASSE} =>
                /\ U32Lt(U32(FALSE_COST_LIMIT), costs[c]) =>
                       \A n \in Adjacent(c) :
                           ~U32Lt(U32Add(costs[n], U32(Terrain(c))), costs[c])
                /\ costs[c] = U32Add(MinU32({costs[n] : n \in Adjacent(c)}),
                                     U32(Terrain(c)))

EnqueuedByStep == {queue'.values[i] : i \in (queue.last + 1) .. queue'.last}

\* C19: a step of the breadth-first pass on the dequeued cell p of terrain
\* cost t writes 0 to p if t = 0 and otherwise the least cost stored in p's
\* in-bounds neighbours plus t; each in-bounds neighbour that holds the
\* undefined sentinel is enqueued once and set to the pending sentinel; the
\* cost of every other cell is unchanged.
C19_BfsStepEffect ==
    [][(pc = "bfs" /\ pc' = "bfs") =>
          LET p == dequeueValue(queue)
              undef == {n \in Adjacent(p) : costs[n] = COST_UNDEF}
          IN /\ costs'[p] = IF Terrain(p) = 0 THEN U32(0)
                            ELSE U32Add(MinU32({costs[n] : n \in Adjacent(p)}),
                                        U32(Terrain(p)))
             /\ \A n \in undef : costs'[n] = COST_PENDING
             /\ EnqueuedByStep = undef
             /\ queue'.last = queue.last + Cardinality(undef)
             /\ queue'.first = queue.first + 1
             /\ \A c \in TheCells \ ({p} \cup undef) : costs'[c] = costs[c]]_vars

\* A step has settled a cell of positive terrain cost from a settled
\* neighbour and has enqueued and marked pending a neighbour that was
\* undefined, which is now the last of the queue.
C19_Witness ==
    /\ pc = "bfs"
    /\ written # <<>>
    /\ Terrain(written[1]) # 0
    /\ written[2] = COST_PENDING
    /\ costs[written[1]] = written[3]
    /\ U32Lt(written[3], COST_PENDING)
    /\ queue.first < queue.last
    /\ queue.values[queue.last] \in Adjacent(written[1])
    /\ costs[queue.values[queue.last]] = COST_PENDING

\* A settled cost: neither the undefined nor the pending sentinel.
Settled(cost) == U32Lt(cost, COST_PENDING)

\* C20: in the breadth-first pass of a grid with an origin, a cell other
\* than the origin has a neighbour with a settled cost when it is dequeued,
\* and the cost written to it is settled and is the sum without wrap-around
\* (it is not less than the cell's terrain cost).
C20_DequeuedHasSettledNeighbour ==
    (pc = "bfs" /\ HasOrigin) =>
        /\ \A p \in ComputedNext :
              p # Origin => \E n \in Adjacent(p) : Settled(costs[n])
        /\ (written # <<>> /\ written[1] # Origin) =>
              /\ Settled(written[3])
              /\ U32Le(U32(Terrain(written[1])), written[3])

\* A cell other than the origin is about to be dequeued with a settled
\* neighbour and a pending one, after another such cell was written.
C20_Witness ==
    /\ pc = "bfs"
    /\ HasOrigin
    /\ written # <<>>
    /\ written[1] # Origin
    /\ Terrain(written[1]) # 0
    /\ \E p \in ComputedNext :
          /\ p # Origin
          /\ \E n \in Adjacent(p) : Settled(costs[n])
          /\ \E n \in Adjacent(p) : costs[n] = COST_PENDING

\* The walks from the origin, as triples <<cell, k, s>>: some 4-connected
\* walk from the origin ends in the cell having entered k crevasses and other
\* cells of terrain costs summing to s, so that its cost is 10000 k + s. R is
\* the set reached so far, F the triples added last; k and s are kept within
\* maxK and maxS.
WalkStep(t, n) ==
    IF soils[n] = CREVASSE THEN <<n, t[2] + 1, t[3]>>
    ELSE <<n, t[2], t[3] + Terrain(n)>>

RECURSIVE WalkClosure(_, _, _, _)
WalkClosure(R, F, maxK, maxS) ==
    LET new == {u \in UNION {{WalkStep(t, n) : n \in Adjacent(t[1])} : t \in F} :
                   u[2] <= maxK /\ u[3] <= maxS} \ R
    IN IF new = {} THEN R ELSE WalkClosure(R \cup new, new, maxK, maxS)

MaxOf(S) == CHOOSE m \in S : \A n \in S : n <= m
CrevasseCost == SoilCostTable[CREVASSE + 1]

\* Some walk of reach from the origin to c costs exactly v.
IsWalkCost(reach, c, v) == <<c, v \div CrevasseCost, v % CrevasseCost>> \in reach

\* C21: on a grid with exactly one origin, every settled cost stored during
\* the run, the final ones included, is the sum of the terrain costs of the
\* cells entered along some 4-connected walk from the origin to the cell, and
\* so is never below the minimum path cost.
C21_NeverUnderestimates ==
    (Started /\ OneOrigin) =>
        LET settled == {c \in TheCells : Settled(costs[c])}
            best == IF pc = "done" THEN AllMinPathCosts ELSE {}
            reach == WalkClosure({<<Origin, 0, 0>>}, {<<Origin, 0, 0>>},
                         MaxOf({0} \cup {Val(costs[c]) \div CrevasseCost : c \in settled}),
                         MaxOf({0} \cup {Val(costs[c]) % CrevasseCost : c \in settled}))
        IN \A c \in settled :
              /\ IsWalkCost(reach, c, Val(costs[c]))
              /\ pc = "done" => CostIn(best, c) <= Val(costs[c])

\* The run has ended on a grid with one origin where a cell holds more than
\* its minimum path cost: an overestimate, which is the cost of a longer walk.
C21_Witness ==
    /\ pc = "done"
    /\ OneOrigin
    /\ \A c \in TheCells : Settled(costs[c])
    /\ \E c \in TheCells : MinPathCost(c) < Val(costs[c])

TurnMoves == {"T_LEFT", "T_RIGHT", "U_TURN"}

\* C22: move(loc, m) returns translate(loc, m) for every localisation and
\* every move, the orientation that rotate computed being overwritten: the
\* orientation of the result is loc.ori, for the turn moves too, and after
\* any sequence of calls of updateLocalisation the rover's orientation is the
\* one it started with.
C22_MoveIsTranslate ==
    /\ p_loc.ori = start.ori
    /\ last # <<>> =>
          /\ p_loc = translate(last.loc, last.m)
          /\ p_loc.ori = last.loc.ori

\* After a translation that moved the rover, a turn move was made: rotate
\* returned another orientation and the rover still has the one it started
\* with.
C22_Witness ==
    /\ calls >= 2
    /\ last # <<>>
    /\ last.m \in TurnMoves
    /\ last.rotated # last.loc.ori
    /\ p_loc.pos # start.pos
    /\ p_loc = translate(last.loc, last.m)
    /\ p_loc.ori = start.ori

====
